---- MODULE Spec2Model ----
(***************************************************************************)
(* A model of utils/traffic_counter.py: the TrafficCounter object, its     *)
(* per-frame counting (process_frame), the frame loop (process_video),     *)
(* the per-frame statistics row (_save_stats) and the release of the video *)
(* handles (stop_processing, __del__).                                     *)
(*                                                                         *)
(* The detector (YOLO) and the video file are the environment.  The road   *)
(* in front of the camera is modelled by a few vehicles that move along    *)
(* the y axis in one continuous motion; the detector reports one box per   *)
(* visible vehicle.  What the environment knows and the program does not   *)
(* (which vehicle a box belongs to) is kept in the history variable        *)
(* `vehicles`; the program's transitions never read it.                    *)
(***************************************************************************)
EXTENDS Integers, Sequences, FiniteSets, TLC

VARIABLES
    stats,          \* self.stats
    tracked_ids,    \* self.tracked_ids
    settings,       \* self.settings
    frame_height,   \* self.frame_height
    cap,            \* self.cap: "open" or "released"
    out,            \* self.out: "absent" (attribute never set), "open" or "released"
    gen,            \* the generator process_video returns: "none" or "suspended"
                    \* (at the yield) while it can go on, else how it ended
    stats_file,     \* traffic_stats.csv: its last row, <<>> while it has none
    frames_read,    \* the position in the video: frames delivered so far
    vehicles,       \* the road: each vehicle's class, motion and the counts it caused
    tape,           \* a recorded list of frames, replayed or run again
    pos,            \* the frames of the tape processed in the current pass
    pass,           \* 1: first pass over the tape, 2: second pass, 3: finished
    mode,           \* "replay": same counter twice, "rerun": a fresh counter
    snapshot,       \* self.stats at the end of the first pass
    unseen          \* for each recorded identity, the frames since a box showed it

program == <<stats, tracked_ids, settings, frame_height, cap, out, gen, stats_file, frames_read>>
replay == <<tape, pos, pass, mode, snapshot>>
vars == <<program, vehicles, replay, unseen>>

(***************************************************************************)
(* Bounds of the model.                                                    *)
(***************************************************************************)
MaxFrames == 4
MaxTape == 2

Vehicles == {1, 2}
EntryDist == {5, 10}
Steps == {5, 20}
Reach == 20
SeenClasses == {2, 5}
SpeedSamples == {30, 50}
LinePercents == {50}
FrameHeights == {100}

(***************************************************************************)
(* TrafficCounter.__init__ and load_settings.                              *)
(***************************************************************************)
vehicle_classes == {2, 3, 5, 7, 1}

class_names == (2 :> "car" @@ 3 :> "motorcycle" @@ 5 :> "bus" @@ 7 :> "truck" @@ 1 :> "bicycle")

ClassCounters == {class_names[c] : c \in vehicle_classes}

\* avg_speed is a quotient of integers; it is kept as the reduced fraction <<n, d>>.
InitStats ==
    [car |-> 0, motorcycle |-> 0, bus |-> 0, truck |-> 0, bicycle |-> 0,
     total_count |-> 0, north_count |-> 0, south_count |-> 0,
     avg_speed |-> <<0, 1>>, speeds |-> <<>>]

\* count_line_position is a fraction of the frame height; the model keeps it in
\* hundredths (home.py passes slider / 100.0).
DefaultSettings ==
    [tracking_persistence |-> 30,
     count_line_position |-> 50,
     speed_estimation_enabled |-> TRUE,
     direction_detection_enabled |-> TRUE,
     save_processed_video |-> FALSE]

SettingsChoices ==
    { [DefaultSettings EXCEPT !.count_line_position = p,
                              !.speed_estimation_enabled = s,
                              !.direction_detection_enabled = d,
                              !.save_processed_video = w] :
        p \in LinePercents, s \in BOOLEAN, d \in BOOLEAN, w \in BOOLEAN }

(***************************************************************************)
(* Arithmetic helpers of process_frame.                                    *)
(***************************************************************************)
Abs(n) == IF n < 0 THEN -n ELSE n

\* int(a / 2): Python's int() truncates toward zero.
IntHalf(a) == IF a >= 0 THEN a \div 2 ELSE -((-a) \div 2)

\* int(self.frame_height * count_line_position)
count_line_y(h, cfg) == (h * cfg.count_line_position) \div 100

RECURSIVE Sum(_)
Sum(s) == IF s = <<>> THEN 0 ELSE Head(s) + Sum(Tail(s))

RECURSIVE Gcd(_, _)
Gcd(a, b) == IF b = 0 THEN a ELSE Gcd(b, a % b)

\* sum(speeds) / len(speeds), as a reduced fraction
Mean(s) == LET g == Gcd(Sum(s), Len(s)) IN <<Sum(s) \div g, Len(s) \div g>>

(***************************************************************************)
(* process_frame, lines 83-98: the counting of one box.                    *)
(***************************************************************************)
\* line 83: how close to the line, in pixels, a centroid must be to count
LineTolerance == 10

\* line 83
NearLine(cY, line) == Abs(cY - line) < LineTolerance

\* A counter that forgets its identity set: every box near the line is new.
IsNewIdAlways(id_tuple, ids) == TRUE

\* line 85
IsNewId(id_tuple, ids) == id_tuple \notin ids

\* lines 89-93: the direction counter a counted box goes to
DirectionCounter(cY, line) == IF cY < line THEN "north_count" ELSE "south_count"

\* lines 94-98
RecordSpeed(st, speed) ==
    LET sp == Append(st.speeds, speed)
    IN  [st EXCEPT !.speeds = sp,
                   !.avg_speed = IF Len(sp) > 0 THEN Mean(sp) ELSE @]

\* A counter that raises total_count and leaves the class counter alone.
CountVehicleTotalOnly(st, class_name, cY, line, speed, cfg) ==
    LET s1 == [st EXCEPT !.total_count = @ + 1]
        s2 == IF cfg.direction_detection_enabled
              THEN [s1 EXCEPT ![DirectionCounter(cY, line)] = @ + 1]
              ELSE s1
    IN  IF cfg.speed_estimation_enabled THEN RecordSpeed(s2, speed) ELSE s2

\* lines 86-98 without the identity set
CountVehicle(st, class_name, cY, line, speed, cfg) ==
    LET s1 == [st EXCEPT !.total_count = @ + 1, ![class_name] = @ + 1]
        s2 == IF cfg.direction_detection_enabled
              THEN [s1 EXCEPT ![DirectionCounter(cY, line)] = @ + 1]
              ELSE s1
    IN  IF cfg.speed_estimation_enabled THEN RecordSpeed(s2, speed) ELSE s2

\* What the loop body did with a box, kept for the history variables only.
Outcome(cY, line, cfg) ==
    IF cfg.direction_detection_enabled THEN DirectionCounter(cY, line) ELSE "counted"

\* The boxes a log says were counted.
Counted(log) == Cardinality({i \in 1..Len(log) : log[i] \notin {"none", "ignored"}})

\* np.random.uniform(30, 70) for the k-th box counted in a frame: rnd lists the draws.
Draw(rnd, k) == IF k \in 1..Len(rnd) THEN rnd[k] ELSE 0

\* lines 68-99: the loop body for one box.  acc = [stats, tracked_ids, log].
ProcessBox(acc, box, speed, line, cfg) ==
    IF box.cls \notin vehicle_classes
    THEN [acc EXCEPT !.log = Append(@, "ignored")]
    ELSE LET cY == IntHalf(box.xyxy[2] + box.xyxy[4])
             id_tuple == box.xyxy
         IN  IF NearLine(cY, line) /\ IsNewId(id_tuple, acc.tracked_ids)
             THEN [stats |-> CountVehicle(acc.stats, class_names[box.cls], cY, line, speed, cfg),
                   tracked_ids |-> acc.tracked_ids \cup {id_tuple},
                   log |-> Append(acc.log, Outcome(cY, line, cfg))]
             ELSE [acc EXCEPT !.log = Append(@, "none")]

RECURSIVE ProcessBoxes(_, _, _, _, _, _)
ProcessBoxes(acc, boxes, rnd, line, cfg, i) ==
    IF i > Len(boxes) THEN acc
    ELSE ProcessBoxes(ProcessBox(acc, boxes[i], Draw(rnd, Counted(acc.log) + 1), line, cfg),
                      boxes, rnd, line, cfg, i + 1)

\* process_frame: boxes are the detector's results, rnd the values
\* np.random.uniform returns, one for each box counted.
process_frame(st, ids, boxes, rnd, h, cfg) ==
    ProcessBoxes([stats |-> st, tracked_ids |-> ids, log |-> <<>>],
                 boxes, rnd, count_line_y(h, cfg), cfg, 1)

\* The random draws a call of process_frame makes: one for each box it counts,
\* when speed estimation is on.
Draws(st, ids, boxes, h, cfg) ==
    IF cfg.speed_estimation_enabled
    THEN [1..Counted(process_frame(st, ids, boxes, <<>>, h, cfg).log) -> SpeedSamples]
    ELSE {<<>>}

(***************************************************************************)
(* The road and the detector.                                              *)
(***************************************************************************)
Waiting == [phase |-> "waiting", cls |-> 0, dir |-> 0, y |-> 0, hits |-> <<>>]

\* The box the detector reports for a vehicle whose centroid is at y.
BoxOf(v) == [cls |-> v.cls, xyxy |-> <<100, v.y - 5, 140, v.y + 5>>]

\* One frame later: a waiting vehicle may enter on either side of the line, a
\* visible one moves on in its direction or leaves the picture, a gone one stays gone.
MovesOf(v, line) ==
    CASE v.phase = "waiting" ->
            {v} \cup { [v EXCEPT !.phase = "visible", !.cls = c, !.dir = d, !.y = line - d * e] :
                         c \in SeenClasses, d \in {1, -1}, e \in EntryDist }
      [] v.phase = "visible" ->
            { IF Abs(v.y + v.dir * s - line) <= Reach
              THEN [v EXCEPT !.y = v.y + v.dir * s]
              ELSE [v EXCEPT !.phase = "gone"] : s \in Steps }
      [] OTHER -> {v}

\* The roads one frame later; the second vehicle enters no earlier than the first.
Roads(road, line) ==
    { r \in [Vehicles -> UNION {MovesOf(road[v], line) : v \in Vehicles}] :
        /\ \A v \in Vehicles : r[v] \in MovesOf(road[v], line)
        /\ \A v \in Vehicles : v > 1 /\ r[v - 1].phase = "waiting" => r[v].phase = "waiting" }

Visible(road) == {v \in Vehicles : road[v].phase = "visible"}

RECURSIVE SetToSeq(_)
SetToSeq(S) ==
    IF S = {} THEN <<>>
    ELSE LET m == CHOOSE x \in S : \A z \in S : x <= z
         IN  <<m>> \o SetToSeq(S \ {m})

Order(road) == SetToSeq(Visible(road))

\* A person: class 0 is not a vehicle class.
Person == [cls |-> 0, xyxy |-> <<10, 40, 20, 60>>]

\* The detector's results for a road: a person first when there is one, then one
\* box per visible vehicle.
Detections(road, person) ==
    (IF person THEN <<Person>> ELSE <<>>)
        \o [i \in 1..Len(Order(road)) |-> BoxOf(road[Order(road)[i]])]

\* The road after the frame: each visible vehicle remembers what its box caused
\* (the counter its count went to) and where.
Attribute(road, person, log) ==
    LET off == IF person THEN 1 ELSE 0
        ord == Order(road)
    IN  [v \in Vehicles |->
            IF \E i \in 1..Len(ord) : ord[i] = v /\ log[i + off] \notin {"none", "ignored"}
            THEN LET i == CHOOSE i \in 1..Len(ord) : ord[i] = v
                 IN  [road[v] EXCEPT !.hits = Append(@, [to |-> log[i + off], y |-> road[v].y])]
            ELSE road[v]]

(***************************************************************************)
(* Recorded frames, for the runs that do not need the road.                *)
(***************************************************************************)
CarA == [cls |-> 2, xyxy |-> <<100, 40, 140, 50>>]
BusA == [cls |-> 5, xyxy |-> <<100, 40, 140, 50>>]
CarB == [cls |-> 2, xyxy |-> <<100, 50, 140, 60>>]
CarFar == [cls |-> 2, xyxy |-> <<100, 0, 140, 10>>]

FrameChoices ==
    {<<>>, <<CarA>>, <<BusA>>, <<CarB>>, <<CarFar>>, <<Person, CarA>>, <<CarA, CarB>>,
     <<CarB, BusA>>}

(***************************************************************************)
(* _save_stats and stop_processing.                                        *)
(***************************************************************************)
\* The row _save_stats appends (the timestamp left out).
StatsRow(st) ==
    [total_count |-> st.total_count, north_count |-> st.north_count,
     south_count |-> st.south_count, avg_speed |-> st.avg_speed,
     car |-> st.car, motorcycle |-> st.motorcycle, bus |-> st.bus,
     truck |-> st.truck, bicycle |-> st.bicycle]

\* _save_stats: traffic_stats.csv (its last row) after the row is appended.
save_stats(st) == <<StatsRow(st)>>

\* A stop_processing that releases the source and forgets the sink.
stop_processing_source_only ==
    /\ cap' = "released"
    /\ out' = out

\* stop_processing: both handles are released; self.out exists only when
\* save_processed_video was set.
stop_processing ==
    /\ cap' = "released"
    /\ out' = IF out = "absent" THEN "absent" ELSE "released"

(***************************************************************************)
(* The object after __init__ and setup_video.                              *)
(***************************************************************************)
Constructed ==
    /\ stats = InitStats
    /\ tracked_ids = {}
    /\ settings \in SettingsChoices
    /\ frame_height \in FrameHeights
    /\ cap = "open"
    /\ out = IF settings.save_processed_video THEN "open" ELSE "absent"
    /\ gen = "none"
    /\ stats_file = <<>>
    /\ frames_read = 0

NoRoad == vehicles = [v \in Vehicles |-> Waiting]

NoReplay ==
    /\ tape = <<>>
    /\ pos = 0
    /\ pass = 0
    /\ mode = "none"
    /\ snapshot = InitStats

NoUnseen == unseen = <<>>

(***************************************************************************)
(* Spec: process_frame called on the frames of a road.                     *)
(***************************************************************************)
Init ==
    /\ Constructed
    /\ settings.save_processed_video = FALSE
    /\ NoRoad
    /\ NoReplay
    /\ NoUnseen

Frame ==
    /\ frames_read < MaxFrames
    /\ \E road \in Roads(vehicles, count_line_y(frame_height, settings)), person \in BOOLEAN :
         \E rnd \in Draws(stats, tracked_ids, Detections(road, person), frame_height, settings) :
            LET r == process_frame(stats, tracked_ids, Detections(road, person), rnd,
                                   frame_height, settings)
            IN  /\ stats' = r.stats
                /\ tracked_ids' = r.tracked_ids
                /\ vehicles' = Attribute(road, person, r.log)
    /\ frames_read' = frames_read + 1
    /\ UNCHANGED <<settings, frame_height, cap, out, gen, stats_file, replay, unseen>>

Next == Frame

Spec == Init /\ [][Next]_vars

(***************************************************************************)
(* Properties of process_frame on a road.                                  *)
(***************************************************************************)
Line == count_line_y(frame_height, settings)

NumHits(v) == Len(vehicles[v].hits)

\* The vehicle has moved from the side it entered on to the other side.
Passed(v) ==
    \/ vehicles[v].phase = "gone"
    \/ vehicles[v].phase = "visible" /\ (vehicles[v].y - Line) * vehicles[v].dir > 0

\* Two positions on opposite sides of the line, or on the line and then past it.
OppositeSides(a, b) ==
    \/ a < Line /\ b > Line
    \/ a > Line /\ b < Line
    \/ a = Line /\ b # Line

RECURSIVE SumOver(_, _)
SumOver(f, S) ==
    IF S = {} THEN 0
    ELSE LET x == CHOOSE x \in S : TRUE IN f[x] + SumOver(f, S \ {x})

\* The counts the vehicles caused that went to a counter.
HitsTo(v, counter) ==
    Cardinality({i \in 1..NumHits(v) : vehicles[v].hits[i].to = counter})

\* C1: a vehicle that moves in one continuous motion from one side of the count
\* line to the other is counted exactly once: never twice, and once it is on
\* the other side it has been counted, in one direction counter when direction
\* detection is on.
C1_CountedExactlyOnce ==
    \A v \in Vehicles :
        /\ NumHits(v) <= 1
        /\ Passed(v) =>
              /\ NumHits(v) = 1
              /\ settings.direction_detection_enabled =>
                    vehicles[v].hits[1].to \in {"north_count", "south_count"}

\* C2: a frame counts a vehicle only when the vehicle's previous centroid and
\* its current centroid lie on opposite sides of the count line (or on the line
\* and then past it); a vehicle seen for the first time, or staying on one
\* side, is not counted.
C2_CountOnlyOnSideChange ==
    [][\A v \in Vehicles :
          Len(vehicles'[v].hits) > Len(vehicles[v].hits) =>
              /\ vehicles[v].phase = "visible"
              /\ OppositeSides(vehicles[v].y, vehicles'[v].y)]_vars

\* C3: with frame height 100 and the line at 0.5 (y = 50), the frame in which a
\* vehicle alone on the road moves from y = 40 to y = 60 raises total_count by
\* exactly 1.
C3_JumpOverLineCounted ==
    [][(/\ frame_height = 100
        /\ settings.count_line_position = 50
        /\ \E v \in Vehicles :
              /\ vehicles[v].phase = "visible" /\ vehicles[v].y = 40
              /\ vehicles'[v].phase = "visible" /\ vehicles'[v].y = 60
              /\ Visible(vehicles') = {v})
       => stats'.total_count = stats.total_count + 1]_vars

\* C4: total_count is the number of counted crossings, the sum of the class
\* counters and, with direction detection on, north_count + south_count; the
\* counted crossings are partitioned by class and by direction, one unit each.
C4_CountersAgree ==
    /\ stats.total_count = SumOver([v \in Vehicles |-> NumHits(v)], Vehicles)
    /\ stats.total_count = SumOver([n \in ClassCounters |-> stats[n]], ClassCounters)
    /\ stats.total_count = Cardinality(tracked_ids)
    /\ \A n \in ClassCounters :
          stats[n] = SumOver([v \in Vehicles |->
                                 IF vehicles[v].phase # "waiting" /\ class_names[vehicles[v].cls] = n
                                 THEN NumHits(v) ELSE 0], Vehicles)
    /\ settings.direction_detection_enabled =>
          /\ stats.total_count = stats.north_count + stats.south_count
          /\ stats.north_count = SumOver([v \in Vehicles |-> HitsTo(v, "north_count")], Vehicles)
          /\ stats.south_count = SumOver([v \in Vehicles |-> HitsTo(v, "south_count")], Vehicles)

C4_Witness ==
    /\ settings.direction_detection_enabled
    /\ stats.total_count >= 3
    /\ stats.north_count >= 1
    /\ stats.south_count >= 1
    /\ stats.car >= 1
    /\ stats.bus >= 1

\* The classes of the vehicles counted with their box at y.
ClassesCountedAt(y) ==
    {vehicles[w].cls : w \in {w \in Vehicles : \E i \in 1..NumHits(w) : vehicles[w].hits[i].y = y}}

\* C5: an identity recorded for one class never suppresses the count of another
\* class: a vehicle whose box comes near the line, at a place where no vehicle
\* of its class has been counted and no other vehicle stands, is counted, also
\* when a vehicle of another class has been counted there.
C5_ClassesNeverShareIdentity ==
    [][\A v \in Vehicles :
          (/\ vehicles'[v].phase = "visible"
           /\ NearLine(vehicles'[v].y, Line)
           /\ vehicles'[v].cls \notin ClassesCountedAt(vehicles'[v].y)
           /\ \A w \in Visible(vehicles') \ {v} : vehicles'[w].y # vehicles'[v].y)
          => /\ Len(vehicles'[v].hits) = Len(vehicles[v].hits) + 1
             /\ stats'[class_names[vehicles'[v].cls]] > stats[class_names[vehicles'[v].cls]]]_vars

\* C10: with direction detection on, the direction counter a vehicle is counted
\* in is decided by the sign of its motion along y: every vehicle moving with
\* increasing y goes to one counter, every vehicle moving with decreasing y to
\* the other.
C10_DirectionFromMotion ==
    settings.direction_detection_enabled =>
        \E polarity \in [{1, -1} -> {"north_count", "south_count"}] :
            /\ polarity[1] # polarity[-1]
            /\ \A v \in Vehicles : \A i \in 1..NumHits(v) :
                  vehicles[v].hits[i].to = polarity[vehicles[v].dir]

(***************************************************************************)
(* ReplaySpec: a recorded list of frames is put through process_frame, and *)
(* then a second time: through the same counter ("replay") or through a    *)
(* counter constructed anew ("rerun").                                     *)
(***************************************************************************)
Tapes == UNION {[1..n -> FrameChoices] : n \in 1..MaxTape}

InitReplay ==
    /\ Constructed
    /\ settings.save_processed_video = FALSE
    /\ NoRoad
    /\ NoUnseen
    /\ tape \in Tapes
    /\ pos = 0
    /\ pass = 1
    /\ mode \in {"replay", "rerun"}
    /\ snapshot = InitStats

\* process_frame on the next frame of the tape
Play ==
    /\ pass \in {1, 2}
    /\ pos < Len(tape)
    /\ \E rnd \in Draws(stats, tracked_ids, tape[pos + 1], frame_height, settings) :
          LET r == process_frame(stats, tracked_ids, tape[pos + 1], rnd, frame_height, settings)
          IN  /\ stats' = r.stats
              /\ tracked_ids' = r.tracked_ids
    /\ pos' = pos + 1
    /\ UNCHANGED <<settings, frame_height, cap, out, gen, stats_file, frames_read,
                   vehicles, tape, pass, mode, snapshot, unseen>>

\* The first pass is over; the same object gets the list again.
Rewind ==
    /\ pass = 1 /\ pos = Len(tape) /\ mode = "replay"
    /\ snapshot' = stats
    /\ pos' = 0
    /\ pass' = 2
    /\ UNCHANGED <<program, vehicles, tape, mode, unseen>>

\* The first pass is over; a new TrafficCounter (__init__, lines 19-27) gets the list.
Restart ==
    /\ pass = 1 /\ pos = Len(tape) /\ mode = "rerun"
    /\ snapshot' = stats
    /\ stats' = InitStats
    /\ tracked_ids' = {}
    /\ pos' = 0
    /\ pass' = 2
    /\ UNCHANGED <<settings, frame_height, cap, out, gen, stats_file, frames_read,
                   vehicles, tape, mode, unseen>>

Finish ==
    /\ pass = 2 /\ pos = Len(tape)
    /\ pass' = 3
    /\ UNCHANGED <<program, vehicles, tape, pos, mode, snapshot, unseen>>

NextReplay ==
    \/ Play
    \/ Rewind
    \/ Restart
    \/ Finish

ReplaySpec == InitReplay /\ [][NextReplay]_vars

\* C7: replaying the same list of observations through the same counter leaves
\* every counter, the speed samples and avg_speed as they were after the first
\* pass, at every point of the second pass and at its end.
C7_ReplayChangesNothing ==
    mode = "replay" /\ pass \in {2, 3} => stats = snapshot

C7_Witness ==
    /\ mode = "replay"
    /\ pass = 3
    /\ Len(tape) = 2
    /\ stats.total_count >= 2
    /\ Len(stats.speeds) >= 2
    /\ stats.north_count >= 1
    /\ stats.south_count >= 1

\* C8: the speeds recorded are a function of the detections: two runs over the
\* same list of frames from the same initial state end with the same speed
\* samples and the same avg_speed.
C8_SpeedIsDeterministic ==
    mode = "rerun" /\ pass = 3 =>
        /\ stats.speeds = snapshot.speeds
        /\ stats.avg_speed = snapshot.avg_speed

(***************************************************************************)
(* EvictSpec: frames in which the boxes of recorded identities come and    *)
(* go; unseen counts, for each identity, the frames since a box showed it  *)
(* (it stops counting one past tracking_persistence).                      *)
(***************************************************************************)
InitEvict ==
    /\ Constructed
    /\ settings.save_processed_video = FALSE
    /\ NoRoad
    /\ NoReplay
    /\ NoUnseen

\* The box tuples of the vehicle boxes of a frame.
Shown(frame) ==
    {frame[i].xyxy : i \in {i \in 1..Len(frame) : frame[i].cls \in vehicle_classes}}

Aged(n, cfg) == IF n > cfg.tracking_persistence THEN n ELSE n + 1

Observe ==
    /\ \E frame \in FrameChoices :
         \E rnd \in Draws(stats, tracked_ids, frame, frame_height, settings) :
            LET r == process_frame(stats, tracked_ids, frame, rnd, frame_height, settings)
            IN  /\ stats' = r.stats
                /\ tracked_ids' = r.tracked_ids
                /\ unseen' = [id \in r.tracked_ids |->
                                 IF id \in Shown(frame) \/ id \notin tracked_ids THEN 0
                                 ELSE Aged(unseen[id], settings)]
    /\ UNCHANGED <<settings, frame_height, cap, out, gen, stats_file, frames_read,
                   vehicles, replay>>

NextEvict == Observe

EvictSpec == InitEvict /\ [][NextEvict]_vars

\* C6: an identity unseen for more than tracking_persistence frames is no longer
\* in the tracked set, and a box that shows it again near the line after that is
\* taken for a new identity, so it is counted.
C6_UnseenIdentityEvicted ==
    /\ [](\A id \in tracked_ids : unseen[id] <= settings.tracking_persistence)
    /\ [][\A id \in tracked_ids :
             unseen[id] > settings.tracking_persistence /\ unseen'[id] = 0
                => stats'.total_count > stats.total_count]_vars

(***************************************************************************)
(* VideoSpec: process_video pulled by a consumer, and the ways it ends.    *)
(***************************************************************************)
InitVideo ==
    /\ Constructed
    /\ NoRoad
    /\ NoReplay
    /\ NoUnseen

\* One iteration of the loop, from next() to the yield: read, process_frame,
\* out.write when a writer was set up, _save_stats.
NextFrame ==
    /\ gen \in {"none", "suspended"}
    /\ cap = "open"
    /\ frames_read < MaxFrames
    /\ \E frame \in FrameChoices :
         \E rnd \in Draws(stats, tracked_ids, frame, frame_height, settings) :
            LET r == process_frame(stats, tracked_ids, frame, rnd, frame_height, settings)
            IN  /\ stats' = r.stats
                /\ tracked_ids' = r.tracked_ids
                /\ stats_file' = save_stats(r.stats)
    /\ frames_read' = frames_read + 1
    /\ gen' = "suspended"
    /\ UNCHANGED <<settings, frame_height, cap, out, vehicles, replay, unseen>>

\* cap.isOpened() is False or cap.read() returns ret = False: the loop ends and
\* the generator returns.
Exhausted ==
    /\ gen \in {"none", "suspended"}
    /\ gen' = "returned"
    /\ UNCHANGED <<stats, tracked_ids, settings, frame_height, cap, out, stats_file,
                   frames_read, vehicles, replay, unseen>>

\* self.model(frame, ...) raises on line 65, before any counter is touched; the
\* exception leaves process_frame and the generator.
DetectorFails ==
    /\ gen \in {"none", "suspended"}
    /\ cap = "open"
    /\ frames_read < MaxFrames
    /\ frames_read' = frames_read + 1
    /\ gen' = "raised"
    /\ UNCHANGED <<stats, tracked_ids, settings, frame_height, cap, out, stats_file,
                   vehicles, replay, unseen>>

\* The consumer stops pulling between two frames and drops the generator
\* (home.py line 46 drops it before the first frame).
ConsumerStops ==
    /\ gen \in {"none", "suspended"}
    /\ gen' = "closed"
    /\ UNCHANGED <<stats, tracked_ids, settings, frame_height, cap, out, stats_file,
                   frames_read, vehicles, replay, unseen>>

\* The consumer calls stop_processing itself between two frames.
StopCalled ==
    /\ gen \in {"none", "suspended"}
    /\ cap = "open"
    /\ stop_processing
    /\ UNCHANGED <<stats, tracked_ids, settings, frame_height, gen, stats_file,
                   frames_read, vehicles, replay, unseen>>

Exited == gen \in {"returned", "raised", "closed"}

Released == cap = "released" /\ out # "open"

\* __del__: with the generator gone nothing refers to the counter any more, and
\* its finalizer runs stop_processing.
Del ==
    /\ Exited
    /\ ~Released
    /\ stop_processing
    /\ UNCHANGED <<stats, tracked_ids, settings, frame_height, gen, stats_file,
                   frames_read, vehicles, replay, unseen>>

NextVideo ==
    \/ NextFrame
    \/ Exhausted
    \/ DetectorFails
    \/ ConsumerStops
    \/ StopCalled
    \/ Del

\* Reference counting runs the finalizer of an object nothing refers to.
VideoSpec == InitVideo /\ [][NextVideo]_vars /\ WF_vars(Del)

\* The counters are those of the last row written (or untouched, before any row).
Flushed == IF stats_file = <<>> THEN stats = InitStats ELSE stats_file[1] = StatsRow(stats)

====
